---- MODULE Spec2Model ----
(***************************************************************************)
(* cdiff: a line-level diff (edit_distance + DiffSubcommand::run) and the  *)
(* patch applier (PatchSubcommand::run) of src/cdiff.cpp.                  *)
(*                                                                         *)
(* A line is a sequence of one-character strings, so that formatting a     *)
(* record and parsing it back are computed character by character.         *)
(***************************************************************************)
EXTENDS Integers, Sequences, FiniteSets, TLC

\* ------------------------------------------------------------------ bounds
\* longest file given to the diff subcommand
MaxLen == 3
\* most records of a hand-written patch file
MaxPatchRows == 2
\* longest file given to the patch subcommand together with a hand-written patch
MaxTargetLen == 1

\* --------------------------------------------------------------- constants
IGNORE == "="
ADD == "+"
REMOVE == "-"
WILD == "%"

\* ----------------------------------------------------------------- inputs
\* the lines files are made of: an empty line, a line that starts with a
\* space and looks like a number, an ordinary line
Lines == { <<>>, <<" ", "1">>, <<"b">> }

SeqsUpTo(S, n) == UNION { [1..k -> S] : k \in 0..n }

\* records of a hand-written patch file
PatchRecords ==
  { <<>>,                              \* blank
    <<"+", " ", "0", " ", "b">>,       \* well formed
    <<"-", " ", "0", " ", "b">>,       \* well formed
    <<"+", " ", "1", "0">>,            \* well formed, no content, two digits
    <<"X", " ", "0", " ", "b">>,       \* unknown action
    <<"+", " ", "z", " ", "b">>,       \* known action, position not a number
    <<"-", " ", "-", "1", " ", "b">>,  \* known action, negative position
    <<"X", " ", "-", "1", " ", "b">>,  \* unknown action, position -1
    <<" ">> }                          \* white space only

\* ---------------------------------------------------------------- helpers
Reverse(s) == [x \in 1..Len(s) |-> s[Len(s) + 1 - x]]

RemoveAt(s, x) == SubSeq(s, 1, x - 1) \o SubSeq(s, x + 1, Len(s))

InsertAt(s, x, e) == SubSeq(s, 1, x - 1) \o <<e>> \o SubSeq(s, x, Len(s))

\* the code of a character, as far as the characters of the model go
Ascii(c) ==
  CASE c = " " -> 32 [] c = "%" -> 37 [] c = "+" -> 43 [] c = "-" -> 45
    [] c = "0" -> 48 [] c = "1" -> 49 [] c = "2" -> 50 [] c = "3" -> 51
    [] c = "4" -> 52 [] c = "5" -> 53 [] c = "6" -> 54 [] c = "7" -> 55
    [] c = "8" -> 56 [] c = "9" -> 57 [] c = "=" -> 61 [] c = "X" -> 88
    [] c = "b" -> 98 [] c = "z" -> 122 [] OTHER -> 63

IsDigit(c) == Ascii(c) \in 48..57

DigitChar(d) ==
  CASE d = 0 -> "0" [] d = 1 -> "1" [] d = 2 -> "2" [] d = 3 -> "3"
    [] d = 4 -> "4" [] d = 5 -> "5" [] d = 6 -> "6" [] d = 7 -> "7"
    [] d = 8 -> "8" [] OTHER -> "9"

\* Move(action, n, line)
Move(action, n, line) == [action |-> action, n |-> n, line |-> line]

\* --------------------------------------------------------- edit_distance
\* distances and actions after their construction: all 0, all WILD
NewTables(m1, m2) ==
  [distances |-> [x \in 0..m1 |-> [y \in 0..m2 |-> 0]],
   actions |-> [x \in 0..m1 |-> [y \in 0..m2 |-> WILD]]]

SetCell(T, x, y, d, a) ==
  [distances |-> [T.distances EXCEPT ![x][y] = d],
   actions |-> [T.actions EXCEPT ![x][y] = a]]

\* for (int j = 1; j < 1 + m2; ++j) { distances[0][j] = j; actions[0][j] = ADD; }
RECURSIVE FirstRowLoop(_, _, _)
FirstRowLoop(T, y, m2) ==
  IF y < 1 + m2 THEN FirstRowLoop(SetCell(T, 0, y, y, ADD), y + 1, m2) ELSE T

FirstRowOneShort(T, m2) == FirstRowLoop(T, 1, m2 - 1)

InitFirstRow(T, m2) == FirstRowLoop(T, 1, m2)

\* for (int i = 1; i < 1 + m1; ++i) { distances[i][0] = i; actions[i][0] = REMOVE; }
RECURSIVE FirstColumnLoop(_, _, _)
FirstColumnLoop(T, x, m1) ==
  IF x < 1 + m1 THEN FirstColumnLoop(SetCell(T, x, 0, x, REMOVE), x + 1, m1) ELSE T

InitFirstColumn(T, m1) == FirstColumnLoop(T, 1, m1)

\* the body of the inner loop for two lines that differ: the removal first,
\* the addition only when it is strictly cheaper, then the cost of the move
CellNoAddition(remove, add) == [d |-> remove + 1, a |-> REMOVE]

CellOfDifferent(remove, add) ==
  LET d0 == remove
      a0 == REMOVE
      d1 == IF d0 > add THEN add ELSE d0
      a1 == IF d0 > add THEN ADD ELSE a0
  IN  [d |-> d1 + 1, a |-> a1]

\* the body of the inner loop at (x, y)
FillCell(T, s, d, x, y) ==
  IF s[x] = d[y]
  THEN SetCell(T, x, y, T.distances[x - 1][y - 1], IGNORE)
  ELSE LET c == CellOfDifferent(T.distances[x - 1][y], T.distances[x][y - 1])
       IN  SetCell(T, x, y, c.d, c.a)

RECURSIVE InnerLoop(_, _, _, _, _)
InnerLoop(T, s, d, x, y) ==
  IF y < 1 + Len(d) THEN InnerLoop(FillCell(T, s, d, x, y), s, d, x, y + 1) ELSE T

RECURSIVE OuterLoop(_, _, _, _)
OuterLoop(T, s, d, x) ==
  IF x < 1 + Len(s) THEN OuterLoop(InnerLoop(T, s, d, x, 1), s, d, x + 1) ELSE T

\* the two tables when the backtrace starts
FillTables(s, d) ==
  LET T0 == SetCell(NewTables(Len(s), Len(d)), 0, 0, 0, IGNORE)
      T1 == InitFirstRow(T0, Len(d))
      T2 == InitFirstColumn(T1, Len(s))
  IN  OuterLoop(T2, s, d, 1)

\* the moves of the backtrace; jj and ii are the indices after the decrement
\* (0-based), d[jj + 1] is dst[jj]
AddMoveBeforeDecrement(jj, d) == Move(ADD, jj + 1, d[jj + 1])

AddMove(jj, d) == Move(ADD, jj, d[jj + 1])

RemoveMoveBeforeDecrement(ii, s) == Move(REMOVE, ii + 1, s[ii + 1])

RemoveMove(ii, s) == Move(REMOVE, ii, s[ii + 1])

\* std::reverse(patch.begin(), patch.end()); return patch;
ReturnUnreversed(raw) == raw

ReturnPatch(raw) == Reverse(raw)

\* ------------------------------------------------- DiffSubcommand::run
\* std::to_string of a non-negative int
RECURSIVE ToDigits(_)
ToDigits(n) ==
  IF n < 10 THEN <<DigitChar(n)>> ELSE ToDigits(n \div 10) \o <<DigitChar(n % 10)>>

\* std::to_string(n)
to_string(n) == IF n < 0 THEN <<"-">> \o ToDigits(0 - n) ELSE ToDigits(n)

\* the record printed for one move: action, " ", position, " ", line
Serialize(m) == <<m.action>> \o <<" ">> \o to_string(m.n) \o <<" ">> \o m.line

\* ------------------------------------------------ PatchSubcommand::run
\* operator>> skips white space before it reads
RECURSIVE SkipWs(_, _)
SkipWs(s, p) == IF p <= Len(s) /\ s[p] = " " THEN SkipWs(s, p + 1) ELSE p

RECURSIVE DigitsEnd(_, _)
DigitsEnd(s, p) == IF p <= Len(s) /\ IsDigit(s[p]) THEN DigitsEnd(s, p + 1) ELSE p

RECURSIVE DigitsValue(_)
DigitsValue(ds) ==
  IF ds = <<>> THEN 0
  ELSE 10 * DigitsValue(SubSeq(ds, 1, Len(ds) - 1)) + (Ascii(ds[Len(ds)]) - 48)

\* if (record.line[0] == ' ') record.line.erase(record.line.begin());
StripAllLeadingSpaces(rest) == SubSeq(rest, SkipWs(rest, 1), Len(rest))

StripSeparator(rest) ==
  IF Len(rest) > 0 /\ rest[1] = " " THEN SubSeq(rest, 2, Len(rest)) ELSE rest

\* Move record; iss >> record.action; iss >> record.n; and the rest of the
\* line as std::getline would read it.  gotAction is FALSE when the first
\* extraction fails: record.action is then never written, and record.n keeps
\* the -1 of Move().  A position that does not parse is written as 0 and
\* fails the stream, after which getline reads nothing; so does a position
\* that ends the line.  (The positions of the model have at most two digits:
\* none is out of the range of int.)
ReadRecord(line) ==
  LET p1 == SkipWs(line, 1)
      gotAction == p1 <= Len(line)
      q == SkipWs(line, p1 + 1)
      signed == q <= Len(line) /\ line[q] \in {"+", "-"}
      ds == IF signed THEN q + 1 ELSE q
      de == DigitsEnd(line, ds)
      gotDigits == gotAction /\ de > ds
      value == DigitsValue(SubSeq(line, ds, de - 1))
      n == IF ~gotAction THEN 0 - 1
           ELSE IF ~gotDigits THEN 0
           ELSE IF signed /\ line[q] = "-" THEN 0 - value ELSE value
      good == gotDigits /\ de <= Len(line)
  IN  [gotAction |-> gotAction,
       action |-> IF gotAction THEN line[p1] ELSE WILD,
       n |-> n,
       rest |-> IF good THEN SubSeq(line, de, Len(line)) ELSE <<>>]

\* the values an action that was never written may hold
IndeterminateActions == {ADD, REMOVE, "X"}

\* record.action != ADD and record.action != REMOVE and record.n != -1
Rejected(action, n) == action # ADD /\ action # REMOVE /\ n # 0 - 1

\* the comparison std::sort is given
Less(p1, p2) ==
  IF p1.n = p2.n THEN Ascii(p1.action) < Ascii(p2.action) ELSE p1.n < p2.n

\* every order std::sort may leave the patch in: two moves neither of which
\* is Less than the other may come out either way round
RECURSIVE SortOutcomes(_)
SortOutcomes(s) ==
  IF s = <<>> THEN { <<>> }
  ELSE UNION { { <<s[x]>> \o r : r \in SortOutcomes(RemoveAt(s, x)) } :
               x \in { x \in 1..Len(s) : \A y \in 1..Len(s) : ~Less(s[y], s[x]) } }

\* std::sort, then std::reverse
ApplyOrders(s) == { Reverse(t) : t \in SortOutcomes(s) }

\* what lines1.erase / lines1.insert with an iterator outside the vector may
\* leave behind when the program does not crash
ErasedOutOfRange(ls) ==
  { ls, IF ls = <<>> THEN ls ELSE SubSeq(ls, 1, Len(ls) - 1) }

InsertedOutOfRange(ls, line) == { ls, Append(ls, line) }

\* ------------------------------------------------------------ the state
VARIABLES
  pc,         \* where the run is
  cmd,        \* the subcommand running: "diff" or "patch"
  piped,      \* TRUE when the patch file is the output of the diff just run
  src, dst,   \* the files named on the command line of diff (src: also of patch)
  distances, actions, i, j,   \* the locals of edit_distance
  rawpatch,   \* patch inside edit_distance, before the reversal
  steps,      \* iterations of the backtrace loop so far
  patch,      \* what edit_distance returned
  out,        \* the lines DiffSubcommand::run printed
  lines1,     \* PatchSubcommand::run: the working sequence
  lines2,     \* PatchSubcommand::run: the lines of the patch file
  row, ok,    \* PatchSubcommand::run: the scan
  reports,    \* the errors printed: the line number and the record
  ppatch,     \* PatchSubcommand::run: patch
  k,          \* moves of ppatch applied so far
  printed     \* the result printed and written to "_" + file_path

vars == <<pc, cmd, piped, src, dst, distances, actions, i, j, rawpatch, steps,
          patch, out, lines1, lines2, row, ok, reports, ppatch, k, printed>>

diffVars == <<distances, actions, i, j, rawpatch, steps, patch, out>>

patchVars == <<lines1, lines2, row, ok, reports, ppatch, k, printed>>

Init ==
  /\ pc = "start"
  /\ piped = FALSE
  /\ \/ /\ cmd = "diff"
        /\ src \in SeqsUpTo(Lines, MaxLen)
        /\ dst \in SeqsUpTo(Lines, MaxLen)
        /\ lines2 = <<>>
     \/ /\ cmd = "patch"
        /\ src \in SeqsUpTo(Lines, MaxTargetLen)
        /\ dst = <<>>
        /\ lines2 \in SeqsUpTo(PatchRecords, MaxPatchRows)
  /\ distances = <<>> /\ actions = <<>> /\ i = 0 /\ j = 0
  /\ rawpatch = <<>> /\ steps = 0 /\ patch = <<>> /\ out = <<>>
  /\ lines1 = <<>> /\ row = 0 /\ ok = TRUE /\ reports = <<>>
  /\ ppatch = <<>> /\ k = 0 /\ printed = <<>>

\* ------------------------------------------------------------- diff
\* DiffSubcommand::run up to the backtrace loop of edit_distance
DiffStart ==
  /\ pc = "start" /\ cmd = "diff"
  /\ LET T == FillTables(src, dst)
     IN  /\ distances' = T.distances
         /\ actions' = T.actions
  /\ i' = Len(src)
  /\ j' = Len(dst)
  /\ rawpatch' = <<>>
  /\ steps' = 0
  /\ pc' = "backtrace"
  /\ UNCHANGED <<cmd, piped, src, dst, patch, out>>
  /\ UNCHANGED patchVars

\* one iteration of while (i > 0 or j > 0).  An index outside a table or a
\* file is undefined behaviour ("ub"); a tag that is none of the three
\* fails the assertion ("assert_backtrace").
BacktraceStep ==
  /\ pc = "backtrace"
  /\ i > 0 \/ j > 0
  /\ steps' = steps + 1
  /\ IF i < 0 \/ j < 0
     THEN pc' = "ub" /\ UNCHANGED <<i, j, rawpatch>>
     ELSE LET action == actions[i][j]
          IN  CASE action = ADD ->
                     IF j - 1 < 0
                     THEN pc' = "ub" /\ UNCHANGED <<i, j, rawpatch>>
                     ELSE /\ j' = j - 1
                          /\ rawpatch' = Append(rawpatch, AddMove(j - 1, dst))
                          /\ UNCHANGED <<pc, i>>
                [] action = REMOVE ->
                     IF i - 1 < 0
                     THEN pc' = "ub" /\ UNCHANGED <<i, j, rawpatch>>
                     ELSE /\ i' = i - 1
                          /\ rawpatch' = Append(rawpatch, RemoveMove(i - 1, src))
                          /\ UNCHANGED <<pc, j>>
                [] action = IGNORE ->
                     /\ i' = i - 1
                     /\ j' = j - 1
                     /\ UNCHANGED <<pc, rawpatch>>
                [] OTHER -> pc' = "assert_backtrace" /\ UNCHANGED <<i, j, rawpatch>>
  /\ UNCHANGED <<cmd, piped, src, dst, distances, actions, patch, out>>
  /\ UNCHANGED patchVars

\* the loop is left: edit_distance returns and DiffSubcommand::run prints
DiffFinish ==
  /\ pc = "backtrace"
  /\ ~(i > 0 \/ j > 0)
  /\ patch' = ReturnPatch(rawpatch)
  /\ out' = [x \in 1..Len(rawpatch) |-> Serialize(ReturnPatch(rawpatch)[x])]
  /\ pc' = "diffdone"
  /\ UNCHANGED <<cmd, piped, src, dst, distances, actions, i, j, rawpatch, steps>>
  /\ UNCHANGED patchVars

\* ------------------------------------------------------------- patch
\* the patch subcommand run on the first file and a hand-written patch
PatchStart ==
  /\ pc = "start" /\ cmd = "patch"
  /\ lines1' = src
  /\ row' = 0 /\ ok' = TRUE /\ ppatch' = <<>>
  /\ pc' = "scan"
  /\ UNCHANGED <<cmd, piped, src, dst, lines2, reports, k, printed>>
  /\ UNCHANGED diffVars

\* the patch subcommand run on the first file and the output of diff
PatchStartOnDiffOutput ==
  /\ pc = "diffdone"
  /\ cmd' = "patch"
  /\ piped' = TRUE
  /\ lines1' = src
  /\ lines2' = out
  /\ row' = 0 /\ ok' = TRUE /\ ppatch' = <<>>
  /\ pc' = "scan"
  /\ UNCHANGED <<src, dst, reports, k, printed>>
  /\ UNCHANGED diffVars

\* one iteration of for (row = 0; row < lines2.size(); ++row)
ScanRow ==
  /\ pc = "scan"
  /\ row < Len(lines2)
  /\ row' = row + 1
  /\ LET line == lines2[row + 1]
         r == ReadRecord(line)
     IN  IF Len(line) = 0
         THEN UNCHANGED <<ok, reports, ppatch>>
         ELSE \E action \in (IF r.gotAction THEN {r.action} ELSE IndeterminateActions) :
                IF Rejected(action, r.n)
                THEN /\ reports' = Append(reports, [row |-> row + 1, line |-> line])
                     /\ ok' = FALSE
                     /\ UNCHANGED ppatch
                ELSE /\ ppatch' = Append(ppatch, Move(action, r.n, StripSeparator(r.rest)))
                     /\ UNCHANGED <<ok, reports>>
  /\ UNCHANGED <<pc, cmd, piped, src, dst, lines1, lines2, k, printed>>
  /\ UNCHANGED diffVars

\* after the scan: return -1, or sort and reverse
ScanEnd ==
  /\ pc = "scan"
  /\ ~(row < Len(lines2))
  /\ IF ~ok
     THEN pc' = "refused" /\ UNCHANGED ppatch
     ELSE pc' = "apply" /\ ppatch' \in ApplyOrders(ppatch)
  /\ k' = 0
  /\ UNCHANGED <<cmd, piped, src, dst, lines1, lines2, row, ok, reports, printed>>
  /\ UNCHANGED diffVars

\* one iteration of for (auto [action, row, line] : patch)
ApplyStep ==
  /\ pc = "apply"
  /\ k < Len(ppatch)
  /\ k' = k + 1
  /\ LET m == ppatch[k + 1]
     IN  CASE m.action = REMOVE ->
                IF 0 <= m.n /\ m.n < Len(lines1)
                THEN lines1' = RemoveAt(lines1, m.n + 1) /\ UNCHANGED pc
                ELSE /\ lines1' \in ErasedOutOfRange(lines1)
                     /\ pc' \in {"apply", "crashed"}
           [] m.action = ADD ->
                IF 0 <= m.n /\ m.n <= Len(lines1)
                THEN lines1' = InsertAt(lines1, m.n + 1, m.line) /\ UNCHANGED pc
                ELSE /\ lines1' \in InsertedOutOfRange(lines1, m.line)
                     /\ pc' \in {"apply", "crashed"}
           [] OTHER -> pc' = "assert_apply" /\ UNCHANGED lines1
  /\ UNCHANGED <<cmd, piped, src, dst, lines2, row, ok, reports, ppatch, printed>>
  /\ UNCHANGED diffVars

\* the result is printed and written
PatchFinish ==
  /\ pc = "apply"
  /\ ~(k < Len(ppatch))
  /\ printed' = lines1
  /\ pc' = "done"
  /\ UNCHANGED <<cmd, piped, src, dst, lines1, lines2, row, ok, reports, ppatch, k>>
  /\ UNCHANGED diffVars

Next ==
  \/ DiffStart
  \/ BacktraceStep
  \/ DiffFinish
  \/ PatchStart
  \/ PatchStartOnDiffOutput
  \/ ScanRow
  \/ ScanEnd
  \/ ApplyStep
  \/ PatchFinish

Spec == Init /\ [][Next]_vars

\* ------------------------------------------------------------ the claims
\* the lines of s whose 0-based index is not in X, in order
RECURSIVE WithoutFrom(_, _, _)
WithoutFrom(s, X, x) ==
  IF x > Len(s) THEN <<>>
  ELSE (IF (x - 1) \in X THEN <<>> ELSE <<s[x]>>) \o WithoutFrom(s, X, x + 1)

Without(s, X) == WithoutFrom(s, X, 1)

Positions(p, action) == { p[x].n : x \in { y \in 1..Len(p) : p[y].action = action } }

\* the least number of lines to delete from s and to insert to reach t
IndelDistance(s, t) ==
  LET costs == { Cardinality(X) + Cardinality(Y) :
                   <<X, Y>> \in { <<X, Y>> \in (SUBSET (0..Len(s) - 1)) \X (SUBSET (0..Len(t) - 1)) :
                                  Without(s, X) = Without(t, Y) } }
  IN  CHOOSE c \in costs : \A e \in costs : c <= e

\* a record of the patch format "<action> <position> <content>": the action
\* is what precedes the first space, the position what lies between the
\* first space and the second
RECURSIVE TokenEnd(_, _)
TokenEnd(s, p) == IF p <= Len(s) /\ s[p] # " " THEN TokenEnd(s, p + 1) ELSE p

ActionToken(line) == SubSeq(line, 1, TokenEnd(line, 1) - 1)

PositionToken(line) ==
  LET p == TokenEnd(line, 1) + 1 IN SubSeq(line, p, TokenEnd(line, p) - 1)

\* (a record of white space only is counted with the blank ones)
Malformed(line) ==
  /\ \E x \in 1..Len(line) : line[x] # " "
  /\ \/ ActionToken(line) \notin { <<ADD>>, <<REMOVE>> }
     \/ PositionToken(line) = <<>>
     \/ \E x \in 1..Len(PositionToken(line)) : ~IsDigit(PositionToken(line)[x])

MalformedRows(file, upto) == { x \in 1..upto : Malformed(file[x]) }

ReportedRows == { reports[x].row : x \in 1..Len(reports) }

AfterScan == cmd = "patch" /\ pc \notin {"start", "scan"}

\* C1: the patch printed by diff for (src, dst), applied by the patch
\* subcommand to src, gives dst.
RoundTrip ==
  (piped /\ pc \in {"done", "crashed", "assert_apply", "refused"}) =>
    (pc = "done" /\ printed = dst)

\* C2: when a move of the patch printed by diff is about to be applied, its
\* position is inside the working sequence: a removal at 0 <= n < length, an
\* addition at 0 <= n <= length.
PositionsValidWhenConsumed ==
  (piped /\ pc = "apply" /\ k < Len(ppatch)) =>
    LET m == ppatch[k + 1]
    IN  /\ m.action = REMOVE => (0 <= m.n /\ m.n < Len(lines1))
        /\ m.action = ADD => (0 <= m.n /\ m.n <= Len(lines1))

\* C3: the patch edit_distance returns has distances[m1][m2] moves, and that
\* is the least number of deletions and insertions that turn src into dst.
Minimality ==
  pc = "diffdone" =>
    /\ Len(patch) = distances[Len(src)][Len(dst)]
    /\ distances[Len(src)][Len(dst)] = IndelDistance(src, dst)

MinimalityWitness ==
  /\ pc = "diffdone"
  /\ Len(src) >= 2 /\ Len(dst) >= 2
  /\ Positions(patch, ADD) # {} /\ Positions(patch, REMOVE) # {}
  /\ Len(patch) < Len(src) + Len(dst)

\* C4: a patch file with a malformed record is refused as a whole: after the
\* scan the run has returned, every malformed record is reported, no move
\* was applied and nothing was printed.
FailClosed ==
  (AfterScan /\ MalformedRows(lines2, Len(lines2)) # {}) =>
    /\ pc = "refused"
    /\ MalformedRows(lines2, Len(lines2)) \subseteq ReportedRows
    /\ k = 0 /\ lines1 = src /\ printed = <<>>

\* C5: the patch edit_distance returns is an edit script: a removal names an
\* index of src and its line, an addition an index of dst and its line, no
\* index is named twice by the same kind of move, and src without the
\* removed indices is dst without the added ones.
EditScriptValid ==
  pc = "diffdone" =>
    /\ \A x \in 1..Len(patch) :
         LET m == patch[x]
         IN  \/ /\ m.action = REMOVE
                /\ 0 <= m.n /\ m.n < Len(src)
                /\ m.line = src[m.n + 1]
             \/ /\ m.action = ADD
                /\ 0 <= m.n /\ m.n < Len(dst)
                /\ m.line = dst[m.n + 1]
    /\ \A x, y \in 1..Len(patch) :
         (x # y /\ patch[x].action = patch[y].action) => patch[x].n # patch[y].n
    /\ Without(src, Positions(patch, REMOVE)) = Without(dst, Positions(patch, ADD))

EditScriptWitness ==
  /\ pc = "diffdone"
  /\ Cardinality(Positions(patch, ADD)) >= 2
  /\ Positions(patch, REMOVE) # {}
  /\ Without(src, Positions(patch, REMOVE)) # <<>>

\* C6: every record diff prints is accepted by the scan of the patch
\* subcommand and read back as the move it was printed from: the same
\* action, position and content.
SerializationRoundTrip ==
  piped =>
    /\ pc # "refused" /\ ok /\ reports = <<>>
    /\ pc = "scan" => ppatch = SubSeq(patch, 1, row)
    /\ pc \in {"apply", "done", "crashed", "assert_apply"} =>
         /\ Len(ppatch) = Len(patch)
         /\ { ppatch[x] : x \in 1..Len(ppatch) } = { patch[x] : x \in 1..Len(patch) }

SerializationWitness ==
  /\ piped /\ pc = "apply"
  /\ \E x \in 1..Len(ppatch) : ppatch[x].line = <<>>
  /\ \E x \in 1..Len(ppatch) : ppatch[x].line = <<" ", "1">>
  /\ \E x \in 1..Len(ppatch) : ppatch[x].action = REMOVE

\* C7: the scan goes over every record; the reports are, in order and once
\* each, the line numbers of the malformed records scanned so far, and a
\* patch with a malformed record is refused.
EveryMalformedReported ==
  cmd = "patch" /\ pc # "start" =>
    /\ Len(reports) = Cardinality(MalformedRows(lines2, row))
    /\ ReportedRows = MalformedRows(lines2, row)
    /\ \A x, y \in 1..Len(reports) : x < y => reports[x].row < reports[y].row
    /\ AfterScan => /\ row = Len(lines2)
                    /\ (pc = "refused") = (MalformedRows(lines2, row) # {})

\* C8: from an empty source the patch is the additions at 0, 1, ..., |dst|-1
\* and nothing else; to an empty destination it is removals only, one for
\* each of the positions 0..|src|-1.
EmptySide ==
  pc = "diffdone" =>
    /\ src = <<>> =>
         /\ Len(patch) = Len(dst)
         /\ \A x \in 1..Len(patch) : patch[x].action = ADD /\ patch[x].n = x - 1
    /\ dst = <<>> =>
         /\ Len(patch) = Len(src)
         /\ \A x \in 1..Len(patch) : patch[x].action = REMOVE
         /\ Positions(patch, REMOVE) = 0..(Len(src) - 1)

EmptySideWitness ==
  /\ pc = "diffdone"
  /\ dst = <<>> /\ Len(src) >= 2
  /\ Len(patch) = Len(src)

\* C9: the backtrace loop ends at (0, 0) within |src| + |dst| iterations;
\* every cell it visits is inside the tables and tagged IGNORE, ADD or
\* REMOVE, the tag never asks to step below index 0, and neither the
\* assertion nor an out-of-range read is ever reached.
BacktraceTotal ==
  cmd = "diff" =>
    /\ pc \notin {"ub", "assert_backtrace"}
    /\ steps <= Len(src) + Len(dst)
    /\ i >= 0 /\ j >= 0
    /\ pc = "backtrace" =>
         /\ i <= Len(src) /\ j <= Len(dst)
         /\ i + j + steps <= Len(src) + Len(dst)
         /\ (i > 0 \/ j > 0) =>
              /\ actions[i][j] \in {IGNORE, ADD, REMOVE}
              /\ actions[i][j] = ADD => j > 0
              /\ actions[i][j] = REMOVE => i > 0
              /\ actions[i][j] = IGNORE => (i > 0 /\ j > 0)
    /\ pc = "diffdone" => (i = 0 /\ j = 0)

\* a finished backtrace that went through cells of all three tags
BacktraceWitness ==
  /\ pc = "diffdone" /\ cmd = "diff"
  /\ i = 0 /\ j = 0
  /\ \E x \in 1..Len(rawpatch) : rawpatch[x].action = ADD
  /\ \E x \in 1..Len(rawpatch) : rawpatch[x].action = REMOVE
  /\ steps > Len(rawpatch)

\* C10 as stated: the positions of the returned patch ascend from the first
\* move to the last.
AscendingPositions ==
  pc = "diffdone" =>
    \A x \in 1..(Len(patch) - 1) : patch[x].n <= patch[x + 1].n

\* C10 as amended: in the returned patch (the backtrace reversed) the
\* positions of the removals ascend strictly in list order and so do the
\* positions of the additions; a removal and an addition are not ordered
\* by position.
AscendingWithinKind ==
  pc = "diffdone" =>
    \A x, y \in 1..Len(patch) :
      (x < y /\ patch[x].action = patch[y].action) => patch[x].n < patch[y].n

AscendingWitness ==
  /\ pc = "diffdone"
  /\ \E x \in 1..(Len(patch) - 1) : patch[x].n > patch[x + 1].n
  /\ Cardinality(Positions(patch, ADD)) >= 2

====
